---- MODULE Spec2Model ----
(***************************************************************************)
(* Worklog-to-payment reconciliation: the payment endpoints of             *)
(* backend/app/worklog/router.py over the freelancer, worklog and payment  *)
(* tables of alembic revision a1b2c3d4e5f6.                                *)
(*                                                                         *)
(* Units.  hours are kept in tenths of an hour, hourly_rate in cents, an   *)
(* earned amount (hours x rate) in thousandths, and a stored total_amount  *)
(* (the result of round(ttl, 2)) in cents.  The hours and rates explored   *)
(* are multiples of 0.5 h and 0.25, so every product and sum is exact in   *)
(* binary floating point and round(x, 2) is round-half-to-even on the      *)
(* decimal value.                                                          *)
(*                                                                         *)
(* Spec     : the three mutating handlers, one request at a time, each     *)
(*            handler one action (all of its commits included).            *)
(* SpecConc : the same handlers run by NumProcs concurrent requests, each  *)
(*            handler cut at its session.commit() calls and its queries    *)
(*            (READ COMMITTED: every statement sees what is committed).    *)
(* SpecApi  : all eight endpoints, the five GET handlers included, one     *)
(*            request at a time.                                           *)
(* SpecAgg  : the two worklog GET handlers over freely drawn time entries  *)
(*            (the aggregation of hours and earned amounts).               *)
(***************************************************************************)
EXTENDS Integers, Sequences, FiniteSets, TLC

\* ---------------------------------------------------------------- bounds
NumTasks == 3
NumEntries == 4
MaxPayments == 2
MaxDay == 1
NumProcs == 2
MaxRequests == 3

\* Python's None (a NULL column)
None == -1

TaskIds == 1..NumTasks
EntryIds == (NumTasks + 1)..(NumTasks + NumEntries)
WorkLogIds == TaskIds \cup EntryIds
FreelancerIds == {1, 2}
Days == 0..MaxDay
Procs == 1..NumProcs

\* hourly_rate of the freelancers explored, in cents (10.25 and 50.00)
Rates == <<1025, 5000>>
\* hours of the time entries explored, in tenths of an hour, by order of
\* insertion (0.5 h, 0.5 h, 2 h, NULL)
Hours == <<5, 5, 20, None>>

VARIABLES freelancer, worklog, payment, resp, session, requests

vars == <<freelancer, worklog, payment, resp, session, requests>>
db == <<freelancer, worklog, payment>>

\* ------------------------------------------------------------ pure helpers

\* Python truthiness of an optional number: None and 0 are falsy
Truthy(x) == x # None /\ x # 0

\* datetime.date(): drops the time of day
DateOf(dt) == dt.day

\* round(x, 2) of x given in thousandths, result in cents (half to even)
Round2(m) ==
    LET q == m \div 10
        r == m % 10
    IN  IF r > 5 THEN q + 1
        ELSE IF r < 5 THEN q
        ELSE IF q % 2 = 0 THEN q ELSE q + 1

\* select(WorkLog).where(type == "time_entry", parent_id == wl_id)
entries(wl_id) ==
    {e \in DOMAIN worklog :
        worklog[e].type = "time_entry" /\ worklog[e].parent_id = wl_id}

RECURSIVE SumHours(_)
SumHours(es) ==
    IF es = {} THEN 0
    ELSE LET e == CHOOSE x \in es : TRUE
         IN  (IF Truthy(worklog[e].hours) THEN worklog[e].hours ELSE 0)
             + SumHours(es \ {e})

\* t_hrs summing the time entries of every worklog
t_hrs_all_entries(wl_id) ==
    SumHours({e \in DOMAIN worklog : worklog[e].type = "time_entry"})

\* t_hrs: sum of the entries' hours, a missing value adds nothing
t_hrs(wl_id) == SumHours(entries(wl_id))

\* rt = fr.hourly_rate if fr else 0.0
rt(wl_id) ==
    IF Truthy(worklog[wl_id].freelancer_id)
    THEN freelancer[worklog[wl_id].freelancer_id].hourly_rate
    ELSE 0

\* amt = t_hrs * rt (thousandths)
amt(wl_id) == t_hrs(wl_id) * rt(wl_id)

RECURSIVE SumAmt(_)
SumAmt(ws) ==
    IF ws = {} THEN 0
    ELSE LET w == CHOOSE x \in ws : TRUE
         IN  amt(w) + SumAmt(ws \ {w})

\* ttl accumulated over a list of worklogs
ttl(ws) == SumAmt(ws)

\* select(WorkLog).where(type == "worklog", status == "pending")
pending_worklogs ==
    {w \in DOMAIN worklog :
        worklog[w].type = "worklog" /\ worklog[w].status = "pending"}

\* eligible with the end of the date range taken as exclusive
eligible_end_exclusive(payload) ==
    {w \in pending_worklogs :
        /\ ~(DateOf(worklog[w].created_at) < payload.date_range_start)
        /\ ~(DateOf(worklog[w].created_at) >= payload.date_range_end)
        /\ ~(w \in payload.excluded_wl_ids)
        /\ ~(worklog[w].freelancer_id \in payload.excluded_freelancer_ids)}

\* the filter loop of create_payment
eligible(payload) ==
    {w \in pending_worklogs :
        /\ ~(DateOf(worklog[w].created_at) < payload.date_range_start)
        /\ ~(DateOf(worklog[w].created_at) > payload.date_range_end)
        /\ ~(w \in payload.excluded_wl_ids)
        /\ ~(worklog[w].freelancer_id \in payload.excluded_freelancer_ids)}

\* select(WorkLog).where(type == "worklog", payment_id == pmt_id)
worklogs_of(pmt_id) ==
    {w \in DOMAIN worklog :
        worklog[w].type = "worklog" /\ worklog[w].payment_id = pmt_id}

\* session.get(Payment, pmt_id) finds a row
payment_exists(pmt_id) == pmt_id \in 1..Len(payment)

\* session.get(WorkLog, wl_id) finds a row
worklog_exists(wl_id) == wl_id \in DOMAIN worklog

Response(op, code, detail) == [op |-> op, code |-> code, detail |-> detail]

\* the request bodies and path parameters explored
Payloads ==
    [date_range_start : Days, date_range_end : Days,
     excluded_wl_ids : SUBSET TaskIds,
     excluded_freelancer_ids : SUBSET FreelancerIds]
PaymentIdArgs == 1..(MaxPayments + 1)
WorkLogIdArgs == 1..(NumTasks + NumEntries + 1)

\* a request's session: where the handler stands and what it has loaded.
\* confirmed_before is history, not program state: the payments that were
\* already confirmed when the request was accepted
IdleSession ==
    [pc |-> "idle", pmt_id |-> None, wl_id |-> None, eligible |-> {},
     ttl |-> 0, wls |-> {}, loaded_total |-> None, confirmed_before |-> {}]

\* ------------------------------------------------------------------ Init

TaskRow(fid, dt) ==
    [type |-> "worklog", parent_id |-> None, freelancer_id |-> fid,
     hours |-> None, status |-> "pending", payment_id |-> None,
     created_at |-> dt]

EntryRow(parent, hrs, dt) ==
    [type |-> "time_entry", parent_id |-> parent, freelancer_id |-> None,
     hours |-> hrs, status |-> None, payment_id |-> None,
     created_at |-> dt]

\* rows are inserted in id order: the n-th row is created in the n-th
\* half day
CreatedAt(n) ==
    LET k == (n - 1) % (2 * (MaxDay + 1))
    IN  [day |-> k \div 2, half |-> k % 2]

\* the n-th time entry belongs to task ((n - 1) mod NumTasks) + 1 and
\* carries the n-th value of Hours (cyclically)
ParentOf(w) == ((w - NumTasks - 1) % NumTasks) + 1
HoursOf(w) == Hours[((w - NumTasks - 1) % Len(Hours)) + 1]

\* every task's freelancer is drawn freely (NULL included); task 1 works
\* for freelancer 1
FreelancerAssignments ==
    {fr \in [TaskIds -> {None} \cup FreelancerIds] : fr[1] = 1}

Init ==
    /\ freelancer = [f \in FreelancerIds |-> [hourly_rate |-> Rates[f]]]
    /\ \E fr \in FreelancerAssignments :
          worklog = [w \in WorkLogIds |->
              IF w \in TaskIds
              THEN TaskRow(fr[w], CreatedAt(w))
              ELSE EntryRow(ParentOf(w), HoursOf(w), CreatedAt(w))]
    /\ payment = <<>>
    /\ resp = Response("none", 0, "")
    /\ session = [p \in Procs |-> IdleSession]
    /\ requests = 0

\* ------------------------------------------------- the handlers' checks

\* create_check without the check of the date range
create_check_no_date_check(payload) ==
    IF eligible(payload) = {}
    THEN Response("create", 400,
                  "No eligible worklogs found for the given date range")
    ELSE Response("create", 201, "")

\* create_check accepting an empty eligible list
create_check_allow_empty(payload) ==
    IF payload.date_range_end < payload.date_range_start
    THEN Response("create", 400,
                  "date_range_end must be after date_range_start")
    ELSE Response("create", 201, "")

\* the checks of create_payment before it writes: the date range, then
\* the eligible list
create_check(payload) ==
    IF payload.date_range_end < payload.date_range_start
    THEN Response("create", 400,
                  "date_range_end must be after date_range_start")
    ELSE IF eligible(payload) = {}
    THEN Response("create", 400,
                  "No eligible worklogs found for the given date range")
    ELSE Response("create", 201, "")

\* confirm_check accepting a payment that is already confirmed
confirm_check_idempotent(pmt_id) ==
    IF ~payment_exists(pmt_id)
    THEN Response("confirm", 404, "Payment not found")
    ELSE Response("confirm", 200, "")

\* confirm_check refusing a payment that has no worklog
confirm_check_nonempty(pmt_id) ==
    IF ~payment_exists(pmt_id)
    THEN Response("confirm", 404, "Payment not found")
    ELSE IF payment[pmt_id].status = "confirmed"
    THEN Response("confirm", 400, "Payment already confirmed")
    ELSE IF worklogs_of(pmt_id) = {}
    THEN Response("confirm", 400, "Payment has no worklogs")
    ELSE Response("confirm", 200, "")

\* the checks of confirm_payment before it writes
confirm_check(pmt_id) ==
    IF ~payment_exists(pmt_id)
    THEN Response("confirm", 404, "Payment not found")
    ELSE IF payment[pmt_id].status = "confirmed"
    THEN Response("confirm", 400, "Payment already confirmed")
    ELSE Response("confirm", 200, "")

\* exclude_worklog_from_payment: the checks on the payment row
exclude_check_pmt(pmt_id) ==
    IF ~payment_exists(pmt_id)
    THEN Response("exclude", 404, "Payment not found")
    ELSE IF payment[pmt_id].status = "confirmed"
    THEN Response("exclude", 400, "Cannot modify a confirmed payment")
    ELSE Response("exclude", 200, "")

\* exclude_check_wl accepting a task whatever payment it points at
exclude_check_wl_any_payment(pmt_id, wl_id) ==
    IF \/ ~worklog_exists(wl_id)
       \/ worklog[wl_id].type # "worklog"
    THEN Response("exclude", 404, "Worklog not found in this payment")
    ELSE Response("exclude", 200, "")

\* exclude_worklog_from_payment: the check on the worklog row
exclude_check_wl(pmt_id, wl_id) ==
    IF \/ ~worklog_exists(wl_id)
       \/ worklog[wl_id].type # "worklog"
       \/ worklog[wl_id].payment_id # pmt_id
    THEN Response("exclude", 404, "Worklog not found in this payment")
    ELSE Response("exclude", 200, "")

\* exclude_check looking at the worklog before the payment's status
exclude_check_wl_first(pmt_id, wl_id) ==
    IF ~payment_exists(pmt_id)
    THEN Response("exclude", 404, "Payment not found")
    ELSE IF exclude_check_wl(pmt_id, wl_id).code # 200
    THEN exclude_check_wl(pmt_id, wl_id)
    ELSE exclude_check_pmt(pmt_id)

\* the checks of exclude_worklog_from_payment in the order it makes them
exclude_check(pmt_id, wl_id) ==
    IF exclude_check_pmt(pmt_id).code # 200
    THEN exclude_check_pmt(pmt_id)
    ELSE exclude_check_wl(pmt_id, wl_id)

\* ------------------------------------------------- the handlers' writes

\* new_payment inserting the row as already confirmed
new_payment_confirmed(total) ==
    [status |-> "confirmed", total_amount |-> Round2(total)]

\* Payment(status="draft", total_amount=round(ttl, 2), ...)
new_payment(total) == [status |-> "draft", total_amount |-> Round2(total)]

\* for wl in wls: wl.payment_id = pmt_id
link(wls, pmt_id) ==
    [w \in DOMAIN worklog |->
        IF w \in wls THEN [worklog[w] EXCEPT !.payment_id = pmt_id]
        ELSE worklog[w]]

\* mark_paid leaving the loop after its first row
mark_paid_first_only(wls) ==
    [w \in DOMAIN worklog |->
        IF w \in wls /\ \A v \in wls : w <= v
        THEN [worklog[w] EXCEPT !.status = "paid"]
        ELSE worklog[w]]

\* mark_paid clearing the payment reference of the rows it marks
mark_paid_and_unlink(wls) ==
    [w \in DOMAIN worklog |->
        IF w \in wls
        THEN [worklog[w] EXCEPT !.status = "paid", !.payment_id = None]
        ELSE worklog[w]]

\* for wl in wls: wl.status = "paid"
mark_paid(wls) ==
    [w \in DOMAIN worklog |->
        IF w \in wls THEN [worklog[w] EXCEPT !.status = "paid"]
        ELSE worklog[w]]

\* unlink clearing the reference of every task of the same payment
unlink_whole_payment(wl_id) ==
    [w \in DOMAIN worklog |->
        IF worklog[w].payment_id = worklog[wl_id].payment_id
        THEN [worklog[w] EXCEPT !.payment_id = None]
        ELSE worklog[w]]

\* wl.payment_id = None
unlink(wl_id) == [worklog EXCEPT ![wl_id].payment_id = None]

\* ----------------------------------------------- handlers, one at a time

\* POST /payments/
create_payment(payload) ==
    LET checked == create_check(payload)
        wls == eligible(payload)
    IN  /\ resp' = checked
        /\ IF checked.code = 201
           THEN /\ Len(payment) < MaxPayments
                /\ payment' = Append(payment, new_payment(ttl(wls)))
                /\ worklog' = link(wls, Len(payment) + 1)
           ELSE UNCHANGED <<worklog, payment>>
        /\ UNCHANGED <<freelancer, session, requests>>

\* POST /payments/{pmt_id}/confirm
confirm_payment(pmt_id) ==
    LET checked == confirm_check(pmt_id)
    IN  /\ resp' = checked
        /\ IF checked.code = 200
           THEN /\ payment' = [payment EXCEPT ![pmt_id].status = "confirmed"]
                /\ worklog' = mark_paid(worklogs_of(pmt_id))
           ELSE UNCHANGED <<worklog, payment>>
        /\ UNCHANGED <<freelancer, session, requests>>

\* DELETE /payments/{pmt_id}/worklogs/{wl_id}
exclude_worklog_from_payment(pmt_id, wl_id) ==
    LET checked == exclude_check(pmt_id, wl_id)
    IN  /\ resp' = checked
        /\ IF checked.code = 200
           THEN /\ worklog' = unlink(wl_id)
                /\ payment' = [payment EXCEPT ![pmt_id].total_amount =
                                  Round2(ttl(worklogs_of(pmt_id) \ {wl_id}))]
           ELSE UNCHANGED <<worklog, payment>>
        /\ UNCHANGED <<freelancer, session, requests>>

Create == \E payload \in Payloads : create_payment(payload)
Confirm == \E pmt_id \in PaymentIdArgs : confirm_payment(pmt_id)
Unlink ==
    \E pmt_id \in PaymentIdArgs : \E wl_id \in WorkLogIdArgs :
        exclude_worklog_from_payment(pmt_id, wl_id)

Next == Create \/ Confirm \/ Unlink

Spec == Init /\ [][Next]_vars

\* --------------------------------- handlers of concurrent requests, by step

\* the server takes one more request (at most MaxRequests are explored)
Accept == requests < MaxRequests /\ requests' = requests + 1

SetSession(p, s) == session' = [session EXCEPT ![p] = s]

\* the session of a request as it is accepted
NewSession ==
    [IdleSession EXCEPT !.confirmed_before =
        {x \in 1..Len(payment) : payment[x].status = "confirmed"}]
At(p, pc) == session[p].pc = pc

\* payments some request is about to insert
PendingInserts == Cardinality({p \in Procs : session[p].pc = "create_insert"})

\* create_payment up to the end of its total loop: the validation, the
\* query of the pending worklogs, the filter and the total
create_select(p, payload) ==
    /\ At(p, "idle")
    /\ Accept
    /\ UNCHANGED db
    /\ IF create_check(payload).code = 201
       THEN /\ Len(payment) + PendingInserts < MaxPayments
            /\ SetSession(p, [NewSession EXCEPT
                   !.pc = "create_insert",
                   !.eligible = eligible(payload),
                   !.ttl = ttl(eligible(payload))])
            /\ UNCHANGED resp
       ELSE /\ resp' = create_check(payload)
            /\ UNCHANGED session

\* session.add(pmt); session.commit(); session.refresh(pmt)
create_insert(p) ==
    /\ At(p, "create_insert")
    /\ payment' = Append(payment, new_payment(session[p].ttl))
    /\ SetSession(p, [session[p] EXCEPT
           !.pc = "create_link", !.pmt_id = Len(payment) + 1])
    /\ UNCHANGED <<freelancer, worklog, resp, requests>>

\* for wl in eligible: wl.payment_id = pmt.id; session.commit(); return
create_link(p) ==
    /\ At(p, "create_link")
    /\ worklog' = link(session[p].eligible, session[p].pmt_id)
    /\ SetSession(p, IdleSession)
    /\ resp' = Response("create", 201, "")
    /\ UNCHANGED <<freelancer, payment, requests>>

\* pmt = session.get(Payment, pmt_id) and the two checks of confirm_payment
confirm_get(p, pmt_id) ==
    /\ At(p, "idle")
    /\ Accept
    /\ UNCHANGED db
    /\ IF confirm_check(pmt_id).code = 200
       THEN /\ SetSession(p, [NewSession EXCEPT
                   !.pc = "confirm_commit", !.pmt_id = pmt_id])
            /\ UNCHANGED resp
       ELSE /\ resp' = confirm_check(pmt_id)
            /\ UNCHANGED session

\* pmt.status = "confirmed"; session.commit()
confirm_commit(p) ==
    /\ At(p, "confirm_commit")
    /\ payment' = [payment EXCEPT ![session[p].pmt_id].status = "confirmed"]
    /\ SetSession(p, [session[p] EXCEPT !.pc = "confirm_select"])
    /\ UNCHANGED <<freelancer, worklog, resp, requests>>

\* the query of the payment's worklogs; with none the loop is skipped and
\* the handler returns
confirm_select(p) ==
    /\ At(p, "confirm_select")
    /\ UNCHANGED <<db, requests>>
    /\ IF worklogs_of(session[p].pmt_id) = {}
       THEN /\ SetSession(p, IdleSession)
            /\ resp' = Response("confirm", 200, "")
       ELSE /\ SetSession(p, [session[p] EXCEPT
                   !.pc = "confirm_mark",
                   !.wls = worklogs_of(session[p].pmt_id)])
            /\ UNCHANGED resp

\* one turn of the loop: wl.status = "paid"; session.commit().  The query
\* has no ORDER BY: the rows come in any order.  After the last row the
\* handler returns
confirm_mark(p) ==
    /\ At(p, "confirm_mark")
    /\ \E wl \in session[p].wls :
          /\ worklog' = mark_paid({wl})
          /\ IF session[p].wls = {wl}
             THEN /\ SetSession(p, IdleSession)
                  /\ resp' = Response("confirm", 200, "")
             ELSE /\ SetSession(p, [session[p] EXCEPT !.wls = @ \ {wl}])
                  /\ UNCHANGED resp
    /\ UNCHANGED <<freelancer, payment, requests>>

\* pmt = session.get(Payment, pmt_id) and the two checks of
\* exclude_worklog_from_payment
exclude_get_pmt(p, pmt_id, wl_id) ==
    /\ At(p, "idle")
    /\ Accept
    /\ UNCHANGED db
    /\ IF exclude_check_pmt(pmt_id).code = 200
       THEN /\ SetSession(p, [NewSession EXCEPT
                   !.pc = "exclude_get_wl", !.pmt_id = pmt_id,
                   !.wl_id = wl_id])
            /\ UNCHANGED resp
       ELSE /\ resp' = exclude_check_pmt(pmt_id)
            /\ UNCHANGED session

\* wl = session.get(WorkLog, wl_id) and its check
exclude_get_wl(p) ==
    /\ At(p, "exclude_get_wl")
    /\ UNCHANGED <<db, requests>>
    /\ IF exclude_check_wl(session[p].pmt_id, session[p].wl_id).code = 200
       THEN /\ SetSession(p, [session[p] EXCEPT !.pc = "exclude_unlink"])
            /\ UNCHANGED resp
       ELSE /\ SetSession(p, IdleSession)
            /\ resp' = exclude_check_wl(session[p].pmt_id, session[p].wl_id)

\* wl.payment_id = None; session.commit()
exclude_unlink(p) ==
    /\ At(p, "exclude_unlink")
    /\ worklog' = unlink(session[p].wl_id)
    /\ SetSession(p, [session[p] EXCEPT !.pc = "exclude_select"])
    /\ UNCHANGED <<freelancer, payment, resp, requests>>

\* pmt.id reloads the payment row (expired by the commit), then the query
\* of the remaining worklogs and the total loop
exclude_select(p) ==
    /\ At(p, "exclude_select")
    /\ SetSession(p, [session[p] EXCEPT
           !.pc = "exclude_total",
           !.loaded_total = payment[session[p].pmt_id].total_amount,
           !.ttl = ttl(worklogs_of(session[p].pmt_id))])
    /\ UNCHANGED <<db, resp, requests>>

\* pmt.total_amount = round(ttl, 2); session.commit(); return.  The unit
\* of work writes the column only when the value differs from the one it
\* loaded
exclude_total(p) ==
    /\ At(p, "exclude_total")
    /\ payment' =
           IF Round2(session[p].ttl) = session[p].loaded_total
           THEN payment
           ELSE [payment EXCEPT ![session[p].pmt_id].total_amount =
                                    Round2(session[p].ttl)]
    /\ SetSession(p, IdleSession)
    /\ resp' = Response("exclude", 200, "")
    /\ UNCHANGED <<freelancer, worklog, requests>>

CreateSelect == \E p \in Procs : \E payload \in Payloads : create_select(p, payload)
CreateInsert == \E p \in Procs : create_insert(p)
CreateLink == \E p \in Procs : create_link(p)
ConfirmGet == \E p \in Procs : \E pmt_id \in PaymentIdArgs : confirm_get(p, pmt_id)
ConfirmCommit == \E p \in Procs : confirm_commit(p)
ConfirmSelect == \E p \in Procs : confirm_select(p)
ConfirmMark == \E p \in Procs : confirm_mark(p)
ExcludeGetPmt ==
    \E p \in Procs : \E pmt_id \in PaymentIdArgs : \E wl_id \in WorkLogIdArgs :
        exclude_get_pmt(p, pmt_id, wl_id)
ExcludeGetWl == \E p \in Procs : exclude_get_wl(p)
ExcludeUnlink == \E p \in Procs : exclude_unlink(p)
ExcludeSelect == \E p \in Procs : exclude_select(p)
ExcludeTotal == \E p \in Procs : exclude_total(p)

NextConc ==
    \/ CreateSelect \/ CreateInsert \/ CreateLink
    \/ ConfirmGet \/ ConfirmCommit \/ ConfirmSelect \/ ConfirmMark
    \/ ExcludeGetPmt \/ ExcludeGetWl \/ ExcludeUnlink \/ ExcludeSelect
    \/ ExcludeTotal

SpecConc == Init /\ [][NextConc]_vars

\* ------------------------------------------------------ the read handlers

\* a 200 answer with its body
DataResponse(op, body) ==
    [op |-> op, code |-> 200, detail |-> "", body |-> body]

\* the query parameters of GET /worklogs/ explored; an absent status is ""
WorklogFilters ==
    [date_from : {None} \cup Days, date_to : {None} \cup Days,
     freelancer_id : {None} \cup FreelancerIds,
     status : {"", "pending", "paid"}]

\* the rows the filter loop of get_worklogs keeps
filtered(q) ==
    {w \in DOMAIN worklog :
        /\ worklog[w].type = "worklog"
        /\ ~(q.date_from # None /\ DateOf(worklog[w].created_at) < q.date_from)
        /\ ~(q.date_to # None /\ DateOf(worklog[w].created_at) > q.date_to)
        /\ ~(Truthy(q.freelancer_id)
               /\ worklog[w].freelancer_id # q.freelancer_id)
        /\ ~(q.status # "" /\ worklog[w].status # q.status)}

\* WorkLogListItem(...)
WorkLogListItem(w) ==
    [id |-> w, freelancer_id |-> worklog[w].freelancer_id,
     hourly_rate |-> rt(w), total_hours |-> t_hrs(w),
     earned_amount |-> amt(w), status |-> worklog[w].status,
     payment_id |-> worklog[w].payment_id,
     created_at |-> worklog[w].created_at]

\* TimeEntryResponse(...)
TimeEntryResponse(e) ==
    [id |-> e, hours |-> worklog[e].hours, created_at |-> worklog[e].created_at]

\* PaymentWorkLogItem(...)
PaymentWorkLogItem(w) ==
    [id |-> w, freelancer_id |-> worklog[w].freelancer_id,
     total_hours |-> t_hrs(w), earned_amount |-> amt(w)]

\* PaymentListItem(...)
PaymentListItem(p) ==
    [id |-> p, status |-> payment[p].status,
     total_amount |-> payment[p].total_amount,
     wl_count |-> Cardinality(worklogs_of(p))]

\* GET /freelancers/
get_freelancers ==
    /\ resp' = DataResponse("get_freelancers",
           [data |-> [f \in DOMAIN freelancer |->
                         [id |-> f, hourly_rate |-> freelancer[f].hourly_rate]],
            count |-> Cardinality(DOMAIN freelancer)])
    /\ UNCHANGED <<db, session, requests>>

\* GET /worklogs/
get_worklogs(q) ==
    /\ resp' = DataResponse("get_worklogs",
           [data |-> [w \in filtered(q) |-> WorkLogListItem(w)],
            count |-> Cardinality(filtered(q))])
    /\ UNCHANGED <<db, session, requests>>

\* GET /worklogs/{wl_id}
get_worklog_detail(wl_id) ==
    /\ resp' =
          IF ~worklog_exists(wl_id) \/ worklog[wl_id].type # "worklog"
          THEN Response("get_worklog_detail", 404, "Worklog not found")
          ELSE DataResponse("get_worklog_detail",
                   [item |-> WorkLogListItem(wl_id),
                    time_entries |->
                        [e \in entries(wl_id) |-> TimeEntryResponse(e)]])
    /\ UNCHANGED <<db, session, requests>>

\* GET /payments/
get_payments ==
    /\ resp' = DataResponse("get_payments",
           [data |-> [p \in 1..Len(payment) |-> PaymentListItem(p)],
            count |-> Len(payment)])
    /\ UNCHANGED <<db, session, requests>>

\* GET /payments/{pmt_id}
get_payment_detail(pmt_id) ==
    /\ resp' =
          IF ~payment_exists(pmt_id)
          THEN Response("get_payment_detail", 404, "Payment not found")
          ELSE DataResponse("get_payment_detail",
                   [id |-> pmt_id, status |-> payment[pmt_id].status,
                    total_amount |-> payment[pmt_id].total_amount,
                    worklogs |-> [w \in worklogs_of(pmt_id) |->
                                     PaymentWorkLogItem(w)]])
    /\ UNCHANGED <<db, session, requests>>

GetFreelancers == get_freelancers
GetWorklogs == \E q \in WorklogFilters : get_worklogs(q)
GetWorklogDetail == \E wl_id \in WorkLogIdArgs : get_worklog_detail(wl_id)
GetPayments == get_payments
GetPaymentDetail == \E pmt_id \in PaymentIdArgs : get_payment_detail(pmt_id)

\* every endpoint of the router, one request at a time, from the stores
\* in which task 2 works for freelancer 2 and task 3 for nobody
InitApi ==
    /\ Init
    /\ worklog[2].freelancer_id = 2
    /\ worklog[3].freelancer_id = None

NextApi ==
    \/ Create \/ Confirm \/ Unlink
    \/ GetFreelancers \/ GetWorklogs \/ GetWorklogDetail
    \/ GetPayments \/ GetPaymentDetail

SpecApi == InitApi /\ [][NextApi]_vars

\* the aggregation of the worklog endpoints over freely drawn time
\* entries: every entry carries NULL, 0 h, 2 h or 3 h; the first belongs
\* to task 1, the others to task 1 or 2; task 1 works for freelancer 1,
\* task 2 for freelancer 2 or nobody, the other tasks for nobody
HourValues == {None, 0, 20, 30}

InitAgg ==
    /\ freelancer = [f \in FreelancerIds |-> [hourly_rate |-> Rates[f]]]
    /\ \E f2 \in {None, 2} :
       \E hrs \in [EntryIds -> HourValues] :
       \E par \in [EntryIds -> {1, 2}] :
          /\ par[NumTasks + 1] = 1
          /\ worklog = [w \in WorkLogIds |->
                IF w \in TaskIds
                THEN TaskRow(IF w = 1 THEN 1 ELSE IF w = 2 THEN f2 ELSE None,
                             CreatedAt(w))
                ELSE EntryRow(par[w], hrs[w], CreatedAt(w))]
    /\ payment = <<>>
    /\ resp = Response("none", 0, "")
    /\ session = [p \in Procs |-> IdleSession]
    /\ requests = 0

NextAgg == GetWorklogs \/ GetWorklogDetail

SpecAgg == InitAgg /\ [][NextAgg]_vars

\* ------------------------------------------------ what the claims speak of

\* the payments that exist
Payments == 1..Len(payment)

\* the tasks whose payment reference points at payment p
LinkedTasks(p) ==
    {t \in TaskIds : worklog[t].payment_id = p}

RECURSIVE Sum(_, _)
Sum(f, S) ==
    IF S = {} THEN 0
    ELSE LET x == CHOOSE y \in S : TRUE IN f[x] + Sum(f, S \ {x})

\* total hours of task t: its time entries' hours, a missing value as 0
TotalHours(t) ==
    Sum([e \in EntryIds |->
            IF worklog[e].hours = None THEN 0 ELSE worklog[e].hours],
        {e \in EntryIds : worklog[e].parent_id = t})

\* earned amount of task t: hours x the freelancer's rate, 0 without one
EarnedAmount(t) ==
    IF worklog[t].freelancer_id = None THEN 0
    ELSE TotalHours(t) * freelancer[worklog[t].freelancer_id].hourly_rate

\* thousandths to the nearest cent, a tie to the even cent
RoundedToCents(m) ==
    CHOOSE c \in {m \div 10, (m \div 10) + 1} :
        LET o == IF c = m \div 10 THEN (m \div 10) + 1 ELSE m \div 10
            dc == IF 10 * c >= m THEN 10 * c - m ELSE m - 10 * c
            do == IF 10 * o >= m THEN 10 * o - m ELSE m - 10 * o
        IN  dc < do \/ (dc = do /\ c % 2 = 0)

\* the total a payment should carry: the rounded sum over its linked tasks
ExpectedTotal(p) ==
    RoundedToCents(Sum([t \in TaskIds |-> EarnedAmount(t)], LinkedTasks(p)))

\* no request is being served
AllIdle == \A q \in Procs : session[q].pc = "idle"

\* ------------------------------------------------------------------ C1
\* C1: after any sequence of completed Create, Unlink and Confirm
\* operations every payment's total_amount is the rounded sum of the earned
\* amounts of the tasks linked to it.
C1_TotalMatchesLinkedTasks ==
    \A p \in Payments : payment[p].total_amount = ExpectedTotal(p)

\* ------------------------------------------------------------------ C2
\* C2: once a payment is confirmed, no step of an operation accepted
\* later changes the set of tasks linked to it or its total_amount.
C2_ConfirmedPaymentFrozen ==
    [][\A q \in Procs : \A p \in session[q].confirmed_before :
          session'[q] # session[q]
          => /\ payment'[p].total_amount = payment[p].total_amount
             /\ LinkedTasks(p)' = LinkedTasks(p)]_vars

\* ------------------------------------------------------------------ C3
\* C3: in every committed state all tasks linked to a confirmed payment
\* are paid.
C3_ConfirmedImpliesPaid ==
    \A p \in Payments :
        payment[p].status = "confirmed"
        => \A t \in LinkedTasks(p) : worklog[t].status = "paid"

\* ------------------------------------------------------------------ C4
\* C4: when the requests served are one Create and Unlink calls on its
\* draft payment, then once all of them have completed the payment's
\* total_amount is the rounded sum over the tasks that remain linked.
C4_UnlinksLeaveRecomputedTotal ==
    (/\ AllIdle
     /\ Len(payment) = 1
     /\ payment[1].status = "draft"
     /\ resp = Response("exclude", 200, ""))
    => payment[1].total_amount = ExpectedTotal(1)

\* ------------------------------------------------------------------ C5
\* C5: in no committed state does the payment of a Create exist while
\* some of the eligible tasks its total was computed over are not linked
\* to it.
C5_PaymentCommittedWithItsLinks ==
    \A q \in Procs :
        (session[q].pmt_id \in Payments /\ session[q].eligible # {})
        => \A t \in session[q].eligible :
               worklog[t].payment_id = session[q].pmt_id

\* ------------------------------------------------------------------ C6
\* C6: when an Unlink and a Confirm on the one draft payment interleave,
\* the final state is that of a serial order, in which the confirmed
\* payment keeps every task that was marked paid and carries the rounded
\* sum over its linked tasks.
C6_UnlinkConfirmSerializable ==
    (/\ AllIdle
     /\ Len(payment) = 1
     /\ payment[1].status = "confirmed")
    => /\ \A t \in TaskIds :
              worklog[t].status = "paid" => worklog[t].payment_id = 1
       /\ payment[1].total_amount = ExpectedTotal(1)

\* ------------------------------------------------------------------ C7
\* C7: a successful Create appends one payment in state draft, links to
\* it exactly the tasks that are task-kind, pending, created within
\* [start, end], not excluded by id and not excluded by freelancer, and
\* gives it the rounded sum of their earned amounts.
IsEligibleTask(w, payload) ==
    /\ worklog[w].type = "worklog"
    /\ worklog[w].status = "pending"
    /\ payload.date_range_start <= worklog[w].created_at.day
    /\ worklog[w].created_at.day <= payload.date_range_end
    /\ w \notin payload.excluded_wl_ids
    /\ \/ worklog[w].freelancer_id = None
       \/ worklog[w].freelancer_id \notin payload.excluded_freelancer_ids

C7_CreateLinksExactlyEligible ==
    [][(resp'.op = "create" /\ resp'.code = 201)
       => \A payload \in Payloads :
             create_payment(payload)
             => /\ Len(payment') = Len(payment) + 1
                /\ payment'[Len(payment')].status = "draft"
                /\ payment'[Len(payment')].total_amount =
                      RoundedToCents(
                          Sum([t \in TaskIds |-> EarnedAmount(t)],
                              {t \in TaskIds : IsEligibleTask(t, payload)}))
                /\ \A w \in WorkLogIds :
                      worklog'[w].payment_id = Len(payment')
                      <=> IsEligibleTask(w, payload)
                /\ \A x \in Payments : payment'[x] = payment[x]]_vars

\* a Create has linked two of the three tasks and left one out
C7_Witness ==
    /\ resp = Response("create", 201, "")
    /\ Len(payment) = 1
    /\ Cardinality(LinkedTasks(1)) = 2
    /\ \E t \in TaskIds : worklog[t].payment_id = None

\* ------------------------------------------------------------------ C8
\* C8: a successful Confirm sets the payment to confirmed and every task
\* linked to it to paid, and leaves its total_amount and its set of linked
\* tasks as they were.
C8_ConfirmMarksAllPaid ==
    [][(resp'.op = "confirm" /\ resp'.code = 200)
       => \A pmt_id \in PaymentIdArgs :
             confirm_payment(pmt_id)
             => /\ payment[pmt_id].status = "draft"
                /\ payment'[pmt_id].status = "confirmed"
                /\ \A t \in LinkedTasks(pmt_id) : worklog'[t].status = "paid"
                /\ payment'[pmt_id].total_amount = payment[pmt_id].total_amount
                /\ LinkedTasks(pmt_id)' = LinkedTasks(pmt_id)]_vars

\* a Confirm has succeeded on a payment with more than one task
C8_Witness ==
    /\ resp = Response("confirm", 200, "")
    /\ \E p \in Payments :
          /\ payment[p].status = "confirmed"
          /\ Cardinality(LinkedTasks(p)) >= 2
          /\ \A t \in LinkedTasks(p) : worklog[t].status = "paid"

\* ------------------------------------------------------------------ C9
\* C9: Confirm of a payment that is already confirmed answers 400
\* "Payment already confirmed", Confirm of a payment id that does not exist
\* answers 404 "Payment not found", and neither changes a payment or task.
C9_ConfirmRejections ==
    [][resp'.op = "confirm"
       => \A pmt_id \in PaymentIdArgs :
             confirm_payment(pmt_id)
             => /\ (pmt_id \in Payments /\ payment[pmt_id].status = "confirmed")
                   => /\ resp' = Response("confirm", 400,
                                          "Payment already confirmed")
                      /\ UNCHANGED db
                /\ pmt_id \notin Payments
                   => /\ resp' = Response("confirm", 404, "Payment not found")
                      /\ UNCHANGED db]_vars

\* a second Confirm of a payment has been rejected
C9_Witness ==
    /\ resp = Response("confirm", 400, "Payment already confirmed")
    /\ \E p \in Payments :
          payment[p].status = "confirmed" /\ LinkedTasks(p) # {}

\* ----------------------------------------------------------------- C10
\* C10: Unlink on a confirmed payment answers 400 "Cannot modify a
\* confirmed payment" for every task id, linked to it or not, and changes
\* no payment and no task.
C10_UnlinkConfirmedRejected ==
    [][resp'.op = "exclude"
       => \A pmt_id \in PaymentIdArgs : \A wl_id \in WorkLogIdArgs :
             (/\ exclude_worklog_from_payment(pmt_id, wl_id)
              /\ pmt_id \in Payments
              /\ payment[pmt_id].status = "confirmed")
             => /\ resp' = Response("exclude", 400,
                                    "Cannot modify a confirmed payment")
                /\ UNCHANGED db]_vars

\* an Unlink has been rejected on a confirmed payment that has tasks
C10_Witness ==
    /\ resp = Response("exclude", 400, "Cannot modify a confirmed payment")
    /\ \E p \in Payments :
          payment[p].status = "confirmed" /\ LinkedTasks(p) # {}

\* ----------------------------------------------------------------- C11
\* C11: a successful Unlink of a task from a draft payment clears that
\* task's payment reference, leaves every other task's payment reference
\* and every task's status as they were, keeps the payment a draft, and
\* leaves it with the rounded sum of the earned amounts of the tasks that
\* are still linked to it.
C11_UnlinkClearsAndRecomputes ==
    [][(resp'.op = "exclude" /\ resp'.code = 200)
       => \A pmt_id \in PaymentIdArgs : \A wl_id \in WorkLogIdArgs :
             exclude_worklog_from_payment(pmt_id, wl_id)
             => /\ payment[pmt_id].status = "draft"
                /\ worklog[wl_id].payment_id = pmt_id
                /\ worklog'[wl_id].payment_id = None
                /\ \A t \in TaskIds \ {wl_id} :
                      worklog'[t].payment_id = worklog[t].payment_id
                /\ \A t \in TaskIds : worklog'[t].status = worklog[t].status
                /\ LinkedTasks(pmt_id)' = LinkedTasks(pmt_id) \ {wl_id}
                /\ payment'[pmt_id].status = "draft"
                /\ payment'[pmt_id].total_amount = ExpectedTotal(pmt_id)'
                /\ \A x \in Payments \ {pmt_id} : payment'[x] = payment[x]
                /\ Len(payment') = Len(payment)]_vars

\* one of three linked tasks has been unlinked, and the two that remain
\* earn something
C11_Witness ==
    /\ resp = Response("exclude", 200, "")
    /\ Len(payment) = 1
    /\ payment[1].status = "draft"
    /\ Cardinality(LinkedTasks(1)) = 2
    /\ payment[1].total_amount > 0
    /\ payment[1].total_amount = ExpectedTotal(1)

\* ----------------------------------------------------------------- C12
\* what makes a worklog id "not a task linked to payment pmt_id": no such
\* row, a time entry, or a task that points elsewhere or nowhere
NotLinkedTask(pmt_id, wl_id) ==
    \/ wl_id \notin WorkLogIds
    \/ wl_id \in EntryIds
    \/ worklog[wl_id].payment_id # pmt_id

\* C12 as stated: Unlink answers 404 and changes nothing when the payment
\* does not exist, and, for any payment that exists, when the task id does
\* not exist, is a time entry, or is not linked to that payment.
C12_UnlinkNotFound ==
    [][resp'.op = "exclude"
       => \A pmt_id \in PaymentIdArgs : \A wl_id \in WorkLogIdArgs :
             exclude_worklog_from_payment(pmt_id, wl_id)
             => /\ pmt_id \notin Payments
                   => resp'.code = 404 /\ UNCHANGED db
                /\ (pmt_id \in Payments /\ NotLinkedTask(pmt_id, wl_id))
                   => resp'.code = 404 /\ UNCHANGED db]_vars

\* C12 amended: the 404 for the task is answered when the payment exists
\* and is a draft; on a confirmed payment the answer is the 400 of the
\* status check, whatever the task id.
C12_UnlinkNotFoundOnDraft ==
    [][resp'.op = "exclude"
       => \A pmt_id \in PaymentIdArgs : \A wl_id \in WorkLogIdArgs :
             exclude_worklog_from_payment(pmt_id, wl_id)
             => /\ pmt_id \notin Payments
                   => /\ resp' = Response("exclude", 404, "Payment not found")
                      /\ UNCHANGED db
                /\ (/\ pmt_id \in Payments
                    /\ payment[pmt_id].status = "draft"
                    /\ NotLinkedTask(pmt_id, wl_id))
                   => /\ resp' = Response("exclude", 404,
                                          "Worklog not found in this payment")
                      /\ UNCHANGED db
                /\ (/\ pmt_id \in Payments
                    /\ payment[pmt_id].status = "confirmed"
                    /\ NotLinkedTask(pmt_id, wl_id))
                   => /\ resp'.code = 400
                      /\ UNCHANGED db]_vars

\* an Unlink has been answered 404 for its task while two draft payments
\* each hold tasks (a task of one is not a task of the other)
C12_Witness ==
    /\ resp = Response("exclude", 404, "Worklog not found in this payment")
    /\ Len(payment) = 2
    /\ \A p \in Payments :
          payment[p].status = "draft" /\ LinkedTasks(p) # {}

\* ----------------------------------------------------------------- C13
\* C13: in every state, whatever tasks and payments are stored and
\* whatever the exclusions, Create with date_range_start after
\* date_range_end is answered 400 "date_range_end must be after
\* date_range_start"; and a Create answered so adds no payment and changes
\* no task.
InvalidRange ==
    Response("create", 400, "date_range_end must be after date_range_start")

C13_CreateRejectsReversedRange ==
    /\ [](\A payload \in Payloads :
             payload.date_range_start > payload.date_range_end
             => create_check(payload) = InvalidRange)
    /\ [][resp' = InvalidRange => UNCHANGED db]_vars

\* a Create has been rejected for its date range while a draft payment
\* with tasks exists and a task is pending and unlinked
C13_Witness ==
    /\ resp = InvalidRange
    /\ \E p \in Payments :
          payment[p].status = "draft" /\ LinkedTasks(p) # {}
    /\ \E t \in TaskIds :
          worklog[t].status = "pending" /\ worklog[t].payment_id = None

\* ----------------------------------------------------------------- C14
\* C14: in every state, Create with a valid date range and no eligible
\* task is answered 400 "No eligible worklogs found for the given date
\* range"; a Create answered so adds no payment and changes no task; and
\* every payment a Create adds has at least one task linked to it as it is
\* created.
NoEligibleWork ==
    Response("create", 400,
             "No eligible worklogs found for the given date range")

C14_CreateRejectsEmptySelection ==
    /\ [](\A payload \in Payloads :
             (/\ payload.date_range_start <= payload.date_range_end
              /\ \A t \in WorkLogIds : ~IsEligibleTask(t, payload))
             => create_check(payload) = NoEligibleWork)
    /\ [][/\ resp' = NoEligibleWork => UNCHANGED db
          /\ Len(payment') > Len(payment)
             => /\ Len(payment') = Len(payment) + 1
                /\ \E t \in TaskIds :
                      worklog'[t].payment_id = Len(payment')]_vars

\* a Create has been rejected for want of eligible tasks although a task
\* exists in each day of the range: all of them are paid
C14_Witness ==
    /\ resp = NoEligibleWork
    /\ Len(payment) >= 1
    /\ \A t \in TaskIds : worklog[t].status = "paid"

\* ----------------------------------------------------------------- C15
\* C15: no step removes a payment, a payment that appears is a draft, a
\* payment's status is draft or confirmed, and a confirmed payment stays
\* confirmed.
C15_StatusOneWay ==
    [][/\ Len(payment') >= Len(payment)
       /\ \A p \in 1..Len(payment') :
             /\ payment'[p].status \in {"draft", "confirmed"}
             /\ p \notin Payments => payment'[p].status = "draft"
             /\ (p \in Payments /\ payment[p].status = "confirmed")
                => payment'[p].status = "confirmed"]_vars

\* one payment has been confirmed and a later one is a draft
C15_Witness ==
    /\ Len(payment) = 2
    /\ payment[1].status = "confirmed"
    /\ payment[2].status = "draft"
    /\ LinkedTasks(2) # {}

\* ----------------------------------------------------------------- C16
\* C16: for every task, whatever time entries it has and whether or not
\* it has a freelancer, the total_hours the worklog endpoints answer is the
\* sum of its entries' hours with a missing value counted as 0, the
\* hourly_rate is the freelancer's or 0 without one, and the earned_amount
\* is total_hours x hourly_rate.
AggregatesOf(item) ==
    /\ item.total_hours = TotalHours(item.id)
    /\ item.earned_amount = EarnedAmount(item.id)
    /\ item.hourly_rate =
          IF worklog[item.id].freelancer_id = None THEN 0
          ELSE freelancer[worklog[item.id].freelancer_id].hourly_rate
    /\ item.earned_amount = item.total_hours * item.hourly_rate

C16_AggregatesAsSpecified ==
    /\ (resp.op = "get_worklog_detail" /\ resp.code = 200)
       => AggregatesOf(resp.body.item)
    /\ resp.op = "get_worklogs"
       => \A w \in DOMAIN resp.body.data : AggregatesOf(resp.body.data[w])

\* the detail of a task of the freelancer paid 50.00 an hour has been
\* answered: entries of 2 h, 3 h and a missing value give 5 h and 250.00
C16_Witness ==
    /\ resp.op = "get_worklog_detail"
    /\ resp.code = 200
    /\ resp.body.item.hourly_rate = 5000
    /\ {resp.body.time_entries[e].hours :
           e \in DOMAIN resp.body.time_entries} = {20, 30, None}
    /\ resp.body.item.total_hours = 50
    /\ resp.body.item.earned_amount = 250000

\* ----------------------------------------------------------------- C17
\* C17: a Create leaves the payment reference of every task that is
\* already linked to a payment as it was.
C17_CreateNeverRelinks ==
    [][resp'.op = "create"
       => \A payload \in Payloads :
             create_payment(payload)
             => \A t \in TaskIds :
                   worklog[t].payment_id # None
                   => worklog'[t].payment_id = worklog[t].payment_id]_vars

\* ----------------------------------------------------------------- C18
\* C18: after every step each paid task is linked to a confirmed payment,
\* and a task that was paid is still paid.
C18_PaidTasksStayWithConfirmed ==
    [][\A t \in TaskIds :
          /\ worklog'[t].status = "paid"
             => /\ worklog'[t].payment_id \in 1..Len(payment')
                /\ payment'[worklog'[t].payment_id].status = "confirmed"
          /\ worklog[t].status = "paid" => worklog'[t].status = "paid"]_vars

\* ----------------------------------------------------------------- C19
\* C19: Unlink of the only task linked to a draft payment answers 200 and
\* leaves the payment a draft with no task and total_amount 0; Confirm of
\* a draft payment with no task answers 200, confirms it and changes no
\* task.
C19_EmptyPaymentKeptAndConfirmable ==
    [][/\ \A pmt_id \in Payments : \A wl_id \in TaskIds :
             (/\ resp'.op = "exclude"
              /\ payment[pmt_id].status = "draft"
              /\ LinkedTasks(pmt_id) = {wl_id}
              /\ exclude_worklog_from_payment(pmt_id, wl_id))
             => /\ resp' = Response("exclude", 200, "")
                /\ Len(payment') = Len(payment)
                /\ payment'[pmt_id] = [status |-> "draft", total_amount |-> 0]
                /\ LinkedTasks(pmt_id)' = {}
       /\ \A pmt_id \in Payments :
             (/\ resp'.op = "confirm"
              /\ payment[pmt_id].status = "draft"
              /\ LinkedTasks(pmt_id) = {}
              /\ confirm_payment(pmt_id))
             => /\ resp' = Response("confirm", 200, "")
                /\ payment'[pmt_id].status = "confirmed"
                /\ payment'[pmt_id].total_amount = payment[pmt_id].total_amount
                /\ worklog' = worklog]_vars

\* the only payment has lost all its tasks to Unlink and has then been
\* confirmed: no task is linked or paid
C19_Witness ==
    /\ resp = Response("confirm", 200, "")
    /\ Len(payment) = 1
    /\ payment[1] = [status |-> "confirmed", total_amount |-> 0]
    /\ \A t \in TaskIds :
          worklog[t].payment_id = None /\ worklog[t].status = "pending"

\* ----------------------------------------------------------------- C20
\* C20: no request changes a freelancer, a time entry's hours or parent,
\* or a task's freelancer or creation date; Unlink changes no task's
\* status; Confirm changes no task's payment reference; the list and
\* detail requests change nothing that is stored.
ReadOps ==
    {"get_freelancers", "get_worklogs", "get_worklog_detail",
     "get_payments", "get_payment_detail"}

C20_FrameOfEachEndpoint ==
    [][/\ freelancer' = freelancer
       /\ DOMAIN worklog' = DOMAIN worklog
       /\ \A w \in DOMAIN worklog :
             /\ worklog'[w].type = worklog[w].type
             /\ worklog'[w].hours = worklog[w].hours
             /\ worklog'[w].parent_id = worklog[w].parent_id
             /\ worklog'[w].freelancer_id = worklog[w].freelancer_id
             /\ worklog'[w].created_at = worklog[w].created_at
             /\ w \in EntryIds => worklog'[w] = worklog[w]
       /\ resp'.op = "exclude"
          => \A t \in TaskIds : worklog'[t].status = worklog[t].status
       /\ resp'.op = "confirm"
          => \A t \in TaskIds : worklog'[t].payment_id = worklog[t].payment_id
       /\ resp'.op \in ReadOps => UNCHANGED db]_vars

\* the detail of a confirmed payment has been read, with its paid tasks
\* in it, after an Unlink took a task out
C20_Witness ==
    /\ resp.op = "get_payment_detail"
    /\ resp.code = 200
    /\ resp.body.status = "confirmed"
    /\ DOMAIN resp.body.worklogs # {}
    /\ \A w \in DOMAIN resp.body.worklogs : worklog[w].status = "paid"
    /\ \E t \in TaskIds :
          worklog[t].payment_id = None /\ worklog[t].status = "pending"

====
